---- MODULE Spec2Model ----
(***************************************************************************)
(* Model of app.py: a Flask application with five routes.                  *)
(*   GET  /up              health_check                                    *)
(*   GET  /upload          upload_page                                     *)
(*   POST /upload_success  upload_file     (s3.upload_fileobj)             *)
(*   GET  /file/<name>     download_file   (s3.download_fileobj)           *)
(*   GET  /db_test         db_test         (psycopg2)                      *)
(* One action per request.  The state is what the handlers act on: the     *)
(* contents of the bucket, the test table, the connections a handler       *)
(* opened and did not close; together with the last request and its        *)
(* response, which is what the properties speak about.                     *)
(* Filenames and file contents are sequences (of characters, of bytes).    *)
(***************************************************************************)
EXTENDS Integers, Sequences, FiniteSets, TLC

VARIABLES
    s3_objects,   \* the bucket: key -> Object(content), or Absent
    s3Up,         \* whether the object store answers
    dbUp,         \* whether the database accepts connections
    tableExists,  \* whether table "test" exists (committed)
    table,        \* committed rows of table "test", in insertion order
    nextId,       \* next value of the serial column id
    unclosed,     \* connections opened by db_test that no handler closed
    uploaded,     \* history: key -> Object(content) of its latest upload
                  \*          answered 200, or Absent
    overwrote,    \* history: the last request was an upload answered 200
                  \*          onto a key that already held an object
    lastResults,  \* history: <<n>> when the latest db_test call returned n
                  \*          rows, <<>> when it returned none (or none ran)
    req,          \* the last request
    resp          \* the response to it

vars == <<s3_objects, s3Up, dbUp, tableExists, table, nextId, unclosed,
          uploaded, overwrote, lastResults, req, resp>>

\* ------------------------------------------------------------- bounds
MaxRows == 2
MaxUnclosed == 1

\* ------------------------------------------------------------- inputs
\* a key holds <<>> (no object) or <<content>>
Absent == <<>>

Object(data) == <<data>>

ContentOf(obj) == obj[1]

\* filenames a client can send: empty, plain ones, and one with a slash
Filenames == { <<>>, <<"a">>, <<"a", "/", "b">> }

\* byte contents, the empty file included
Contents == { <<>>, <<7, 0>> }

Range(s) == { s[i] : i \in 1..Len(s) }

\* the multipart form of a POST: the field "file" absent, or present with
\* a filename and a content
Forms == [hasFile : {FALSE}, filename : {<<>>}, content : {<<>>}]
         \cup [hasFile : {TRUE}, filename : Filenames, content : Contents]

NoForm == [hasFile |-> FALSE, filename |-> <<>>, content |-> <<>>]

\* ------------------------------------------------------------- requests

Request(method, route, name, form, failAt) ==
    [method |-> method, route |-> route, name |-> name, form |-> form,
     failAt |-> failAt, s3Up |-> s3Up, dbUp |-> dbUp]

\* ------------------------------------------------------------- responses

Response(handler, status, ctype, error, body, results, url, calls, raised) ==
    [handler |-> handler, status |-> status, ctype |-> ctype, error |-> error,
     body |-> body, results |-> results, url |-> url, calls |-> calls,
     raised |-> raised]

NoCall == "none"

\* variant: a health check that probes the backends
health_check_probing ==
    IF s3Up /\ dbUp
    THEN Response("health_check", 200, "text", FALSE, <<>>, <<>>, <<>>,
                  <<"probe">>, NoCall)
    ELSE Response("health_check", 503, "text", FALSE, <<>>, <<>>, <<>>,
                  <<"probe">>, "probe")

\* return "200 OK", 200
health_check_response ==
    Response("health_check", 200, "text", FALSE, <<>>, <<>>, <<>>, <<>>, NoCall)

\* return render_template_string(...)
upload_page_response ==
    Response("upload_page", 200, "html", FALSE, <<>>, <<>>, <<>>, <<>>, NoCall)

\* Flask's answer when no route matches the path
NotFoundResponse ==
    Response("none", 404, "html", FALSE, <<>>, <<>>, <<>>, <<>>, NoCall)

\* variant: no except clause, the exception reaches Flask (500, HTML page)
ErrorEscapes(handler, calls, raised) ==
    Response(handler, 500, "html", FALSE, <<>>, <<>>, <<>>, calls, raised)

\* except Exception as e: return jsonify({"error": str(e)}), 500
ErrorResponse(handler, calls, raised) ==
    Response(handler, 500, "json", TRUE, <<>>, <<>>, <<>>, calls, raised)

\* ------------------------------------------------------------- upload

\* "file" not in request.files
MissingPart(form) == ~form.hasFile

\* variant: the filename is compared with None, never equal
EmptyFilenameNone(form) == FALSE

\* file.filename == ""
EmptyFilename(form) == form.filename = <<>>

\* variant: the status code is left out of the return
NoFilePartNoStatus ==
    Response("upload_file", 200, "json", TRUE, <<>>, <<>>, <<>>, <<>>, NoCall)

\* return jsonify({"error": "No file part in the request"}), 400
NoFilePartResponse ==
    Response("upload_file", 400, "json", TRUE, <<>>, <<>>, <<>>, <<>>, NoCall)

\* return jsonify({"error": "No selected file"}), 400
NoSelectedFileResponse ==
    Response("upload_file", 400, "json", TRUE, <<>>, <<>>, <<>>, <<>>, NoCall)

\* url = f"https://{bucket}.s3.{region}.amazonaws.com/{file.filename}"
UrlOf(key) == <<"https://", "{bucket}", ".s3.", "{region}", ".amazonaws.com/">> \o key

\* variant: a put that keeps what the key already holds
upload_fileobj_keep(objs, key, data) ==
    IF objs[key] = Absent THEN [objs EXCEPT ![key] = Object(data)] ELSE objs

\* s3.upload_fileobj(file, bucket, file.filename): the stream's bytes are
\* stored under the key, replacing what the key held
upload_fileobj(objs, key, data) == [objs EXCEPT ![key] = Object(data)]

\* variant: the put is issued before the filename check
ReachesPutEarly(form) == ~MissingPart(form)

\* whether the handler gets to the put: both checks come first
ReachesPut(form) == ~MissingPart(form) /\ ~EmptyFilename(form)

\* the bucket after the handler ran
upload_file_objects(objs, form, up) ==
    IF ReachesPut(form) /\ up
    THEN upload_fileobj(objs, form.filename, form.content)
    ELSE objs

\* the handler's response
upload_file_response(form, up) ==
    IF MissingPart(form) THEN NoFilePartResponse
    ELSE IF EmptyFilename(form) THEN NoSelectedFileResponse
    ELSE IF up
         THEN Response("upload_file", 200, "html", FALSE, <<>>, <<>>,
                       UrlOf(form.filename), <<"upload_fileobj">>, NoCall)
         ELSE ErrorResponse("upload_file", <<"upload_fileobj">>, "upload_fileobj")

\* ------------------------------------------------------------- download

\* the rule "/file/<name>": <name> is one non-empty path segment
RouteMatch(name) == name # <<>> /\ "/" \notin Range(name)

\* variant: file.seek(0) is missing
PositionAfterDownload(data) == Len(data)

\* s3.download_fileobj(bucket, name, file) writes the object into the
\* buffer and leaves the position at its end; file.seek(0) rewinds
PositionAfterSeek(data) == 0

\* what send_file reads: the buffer from its position on
ReadFrom(data, pos) == SubSeq(data, pos + 1, Len(data))

\* variant: a missing key is answered 404
download_file_response_404(objs, name, up) ==
    IF up /\ objs[name] # Absent
    THEN Response("download_file", 200, "attachment", FALSE,
                  ContentOf(objs[name]),
                  <<>>, <<>>, <<"download_fileobj">>, NoCall)
    ELSE IF up
         THEN Response("download_file", 404, "json", TRUE, <<>>, <<>>, <<>>,
                       <<"download_fileobj">>, "download_fileobj")
         ELSE Response("download_file", 500, "json", TRUE, <<>>, <<>>, <<>>,
                       <<"download_fileobj">>, "download_fileobj")

download_file_response(objs, name, up) ==
    IF up /\ objs[name] # Absent
    THEN Response("download_file", 200, "attachment", FALSE,
                  ReadFrom(ContentOf(objs[name]),
                           PositionAfterSeek(ContentOf(objs[name]))),
                  <<>>, <<>>, <<"download_fileobj">>, NoCall)
    ELSE ErrorResponse("download_file", <<"download_fileobj">>, "download_fileobj")

\* ------------------------------------------------------------- database

\* the backend calls of db_test, in program order
DbCalls == << "connect", "cursor", "execute_create", "execute_insert",
              "commit", "execute_select", "fetchall", "cur.close", "conn.close" >>

\* the call that raises: 0 for none, else its index in DbCalls.  An
\* unreachable database fails the connect; a reachable one may fail later.
DbFaults(up) == IF up THEN {0} \cup (2..7) ELSE {1}

\* variant: cursor and connection closed in a finally clause
CallsIssuedFinally(failAt) ==
    IF failAt = 0 THEN << "connect", "cursor", "execute_create",
                          "execute_insert", "commit", "execute_select",
                          "fetchall", "cur.close", "conn.close" >>
    ELSE IF failAt = 1 THEN << "connect" >>
    ELSE SubSeq(<< "connect", "cursor", "execute_create", "execute_insert",
                   "commit", "execute_select", "fetchall" >>, 1, failAt)
         \o << "cur.close", "conn.close" >>

\* the calls the handler issued, the raising one included
CallsIssued(failAt) == IF failAt = 0 THEN DbCalls ELSE SubSeq(DbCalls, 1, failAt)

Raised(failAt) == IF failAt = 0 THEN NoCall ELSE DbCalls[failAt]

\* call c was issued and returned
Returned(calls, raised, c) == c \in Range(calls) /\ c # raised

\* variant: the INSERT statement is missing
InsertNothing(t, id) == t

\* INSERT INTO test (data) VALUES ('GeoIQ') with the serial id
InsertRow(t, id) == Append(t, <<id, "GeoIQ">>)

db_test_response(failAt, rows) ==
    IF failAt = 0
    THEN Response("db_test", 200, "json", FALSE, <<>>, rows, <<>>, DbCalls, NoCall)
    ELSE ErrorResponse("db_test", CallsIssued(failAt), Raised(failAt))

\* ------------------------------------------------------------- state machine

Init ==
    /\ s3_objects = [k \in Filenames |-> Absent]
    /\ s3Up = TRUE
    /\ dbUp = TRUE
    /\ tableExists = FALSE
    /\ table = <<>>
    /\ nextId = 1
    /\ unclosed = 0
    /\ uploaded = [k \in Filenames |-> Absent]
    /\ overwrote = FALSE
    /\ lastResults = <<>>
    /\ req = Request("GET", "up", <<>>, NoForm, 0)
    /\ resp = health_check_response

\* the backends become reachable or unreachable
BackendChange ==
    /\ \E s \in BOOLEAN, d \in BOOLEAN :
          /\ <<s, d>> # <<s3Up, dbUp>>
          /\ s3Up' = s
          /\ dbUp' = d
    /\ UNCHANGED <<s3_objects, tableExists, table, nextId, unclosed,
                   uploaded, overwrote, lastResults, req, resp>>

\* GET /up
health_check ==
    /\ req' = Request("GET", "up", <<>>, NoForm, 0)
    /\ resp' = health_check_response
    /\ overwrote' = FALSE
    /\ UNCHANGED <<s3_objects, s3Up, dbUp, tableExists, table, nextId,
                   unclosed, uploaded, lastResults>>

\* GET /upload
upload_page ==
    /\ req' = Request("GET", "upload", <<>>, NoForm, 0)
    /\ resp' = upload_page_response
    /\ overwrote' = FALSE
    /\ UNCHANGED <<s3_objects, s3Up, dbUp, tableExists, table, nextId,
                   unclosed, uploaded, lastResults>>

\* POST /upload_success
upload_file ==
    \E form \in Forms :
        /\ req' = Request("POST", "upload_success", <<>>, form, 0)
        /\ resp' = upload_file_response(form, s3Up)
        /\ s3_objects' = upload_file_objects(s3_objects, form, s3Up)
        /\ uploaded' = IF resp'.status = 200
                       THEN [uploaded EXCEPT ![form.filename] = Object(form.content)]
                       ELSE uploaded
        /\ overwrote' = (resp'.status = 200 /\ s3_objects[form.filename] # Absent)
        /\ UNCHANGED <<s3Up, dbUp, tableExists, table, nextId, unclosed,
                       lastResults>>

\* GET /file/<name>
download_file ==
    \E name \in Filenames :
        /\ req' = Request("GET", "file", name, NoForm, 0)
        /\ resp' = IF RouteMatch(name)
                   THEN download_file_response(s3_objects, name, s3Up)
                   ELSE NotFoundResponse
        /\ overwrote' = FALSE
        /\ UNCHANGED <<s3_objects, s3Up, dbUp, tableExists, table, nextId,
                       unclosed, uploaded, lastResults>>

\* GET /db_test.  A transaction left open by a failed call is never
\* committed: its CREATE and INSERT are not seen by later calls.
db_test ==
    \E failAt \in DbFaults(dbUp) :
        LET calls     == CallsIssued(failAt)
            raised    == Raised(failAt)
            inserted  == Returned(calls, raised, "execute_insert")
            committed == Returned(calls, raised, "commit")
            opened    == Returned(calls, raised, "connect")
            closed    == Returned(calls, raised, "conn.close")
        IN  /\ inserted => nextId <= MaxRows
            /\ (opened /\ ~closed) => unclosed < MaxUnclosed
            /\ req' = Request("GET", "db_test", <<>>, NoForm, failAt)
            /\ table' = IF committed THEN InsertRow(table, nextId) ELSE table
            /\ tableExists' = (tableExists \/ committed)
            /\ nextId' = IF inserted /\ (tableExists \/ committed)
                         THEN nextId + 1 ELSE nextId
            /\ unclosed' = IF opened /\ ~closed THEN unclosed + 1 ELSE unclosed
            /\ resp' = db_test_response(failAt, table')
            /\ lastResults' = IF resp'.status = 200
                              THEN <<Len(resp'.results)>> ELSE <<>>
            /\ overwrote' = FALSE
            /\ UNCHANGED <<s3_objects, s3Up, dbUp, uploaded>>

Next ==
    \/ health_check
    \/ upload_page
    \/ upload_file
    \/ download_file
    \/ db_test
    \/ BackendChange

Spec == Init /\ [][Next]_vars

\* ------------------------------------------------------------- properties

HandlerJsonError == resp.ctype = "json" /\ resp.error

Segment(name) == name # <<>> /\ "/" \notin Range(name)

\* C1 as stated: for every filename k and content b, once an upload of
\* (k, b) was answered 200 and no later upload to k happened, GET /file/k
\* returns 200 with body exactly b.
C1_RoundTrip ==
    (req.route = "file" /\ uploaded[req.name] # Absent)
        => (resp.status = 200 /\ resp.body = ContentOf(uploaded[req.name]))

\* C1 amended: the same for every filename k that is one path segment (no
\* "/"): GET /file/k returns 200 with body exactly b when the object store
\* answers, and 500 with a JSON error when its get raises.
C1_RoundTripSegment ==
    (req.route = "file" /\ uploaded[req.name] # Absent /\ Segment(req.name))
        => IF req.s3Up
           THEN resp.status = 200 /\ resp.body = ContentOf(uploaded[req.name])
           ELSE resp.status = 500 /\ HandlerJsonError

C1_Witness ==
    /\ req.route = "file"
    /\ req.name = <<"a">>
    /\ uploaded[req.name] = Object(<<7, 0>>)
    /\ overwrote = FALSE
    /\ resp.status = 200
    /\ resp.body = <<7, 0>>

\* C2: a POST /upload_success whose form has no field "file" is answered
\* 400 with a JSON body holding the key "error".
C2_MissingPart400 ==
    (req.route = "upload_success" /\ ~req.form.hasFile)
        => (resp.status = 400 /\ HandlerJsonError)

C2_Witness ==
    /\ req.route = "upload_success"
    /\ ~req.form.hasFile
    /\ ~req.s3Up
    /\ resp.status = 400

\* C3: a POST /upload_success with the field "file" and an empty filename
\* is answered 400 with a JSON error, whatever the content.
C3_EmptyFilename400 ==
    (req.route = "upload_success" /\ req.form.hasFile /\ req.form.filename = <<>>)
        => (resp.status = 400 /\ HandlerJsonError)

C3_Witness ==
    /\ req.route = "upload_success"
    /\ req.form.hasFile
    /\ req.form.filename = <<>>
    /\ req.form.content = <<7, 0>>
    /\ resp.status = 400

\* C4: GET /file/{name} for a name (one path segment) that is no key of the
\* bucket returns 500 with a JSON error, never 404.
C4_NotFound500 ==
    (req.route = "file" /\ Segment(req.name) /\ s3_objects[req.name] = Absent)
        => (resp.status = 500 /\ HandlerJsonError)

C4_Witness ==
    /\ req.route = "file"
    /\ req.name = <<"a">>
    /\ s3_objects[<<"a">>] = Absent
    /\ s3_objects[<<"a", "/", "b">>] # Absent
    /\ req.s3Up
    /\ resp.status = 500

C6_UpAlways200 ==
    req.route = "up" => (resp.status = 200 /\ resp.calls = <<>>)

C6_Witness ==
    /\ req.route = "up"
    /\ ~req.s3Up
    /\ ~req.dbUp
    /\ unclosed > 0
    /\ resp.status = 200

\* C7: in upload_file, download_file and db_test an exception of a backend
\* call is answered 500 with a JSON error; the statuses are 200, 400 and
\* 500, and 400 is only the upload handler's answer to a missing part or
\* an empty filename.
C7_ErrorTaxonomy ==
    resp.handler \in {"upload_file", "download_file", "db_test"}
        => /\ resp.status \in {200, 400, 500}
           /\ resp.raised # NoCall => (resp.status = 500 /\ HandlerJsonError)
           /\ resp.status = 500 => (resp.raised # NoCall /\ HandlerJsonError)
           /\ (req.route = "db_test" /\ (req.failAt # 0 \/ ~req.dbUp))
                => resp.raised # NoCall
           /\ (req.route = "file" /\ ~req.s3Up) => resp.raised # NoCall
           /\ (req.route = "upload_success" /\ ~req.s3Up /\ req.form.hasFile
                 /\ req.form.filename # <<>>) => resp.raised # NoCall
           /\ resp.status = 400
                => /\ resp.handler = "upload_file"
                   /\ ~req.form.hasFile \/ req.form.filename = <<>>
                   /\ resp.calls = <<>>

C7_Witness ==
    /\ resp.handler = "db_test"
    /\ resp.raised = "commit"
    /\ resp.status = 500

\* C8: the object under key k is the content of the latest upload of k
\* answered 200; an upload changes no other key; no step removes a key.
C8_LastWriteWins ==
    /\ [](\A k \in Filenames : s3_objects[k] = uploaded[k])
    /\ [][ \A k \in Filenames :
             /\ s3_objects[k] # Absent => s3_objects'[k] # Absent
             /\ s3_objects'[k] # s3_objects[k]
                  => /\ req'.route = "upload_success"
                     /\ req'.form.filename = k
                     /\ resp'.status = 200
                     /\ s3_objects'[k] = Object(req'.form.content) ]_vars

C8_Witness ==
    /\ overwrote
    /\ req.form.filename = <<"a">>
    /\ req.form.content = <<>>
    /\ s3_objects[<<"a">>] = Object(<<>>)
    /\ s3_objects[<<"a", "/", "b">>] = Object(<<7, 0>>)

\* C9: a /db_test call answered 200 has closed its cursor and connection
\* (as many connections are open after it as before); a call in which
\* cursor, CREATE, INSERT, commit, SELECT or fetch raised is answered 500
\* and leaves its connection open.
C9_ConnectionLifecycle ==
    [][ db_test
          => /\ resp'.status = 200
                  => /\ unclosed' = unclosed
                     /\ Len(resp'.calls) >= 2
                     /\ resp'.calls[Len(resp'.calls) - 1] = "cur.close"
                     /\ resp'.calls[Len(resp'.calls)] = "conn.close"
             /\ req'.failAt \in 2..7
                  => /\ resp'.status = 500
                     /\ resp'.calls[1] = "connect"
                     /\ "conn.close" \notin Range(resp'.calls)
                     /\ unclosed' = unclosed + 1
             /\ req'.failAt = 1 => unclosed' = unclosed ]_vars

C9_Witness ==
    /\ req.route = "db_test"
    /\ resp.status = 500
    /\ resp.raised = "fetchall"
    /\ unclosed = 1
    /\ Len(table) = 1

\* C10: the bucket changes only in an upload that passes both checks and
\* is answered 200; an upload answered 400 issued no put and left the
\* bucket as it was; no other request changes the bucket.
C10_BucketFrame ==
    /\ [](resp.status = 400 => resp.calls = <<>>)
    /\ [][ s3_objects' # s3_objects
             => /\ req'.route = "upload_success"
                /\ req'.form.hasFile
                /\ req'.form.filename # <<>>
                /\ resp'.status = 200 ]_vars

C10_Witness ==
    /\ req.route = "upload_success"
    /\ req.form.hasFile
    /\ req.form.content = <<7, 0>>
    /\ resp.status = 400
    /\ s3_objects[<<"a">>] = Object(<<>>)
    /\ s3_objects[<<>>] = Absent

====
